---- MODULE Spec2Model ----
(***************************************************************************)
(* Sprint Board: the task store (TaskContext.tsx), the API client with its *)
(* retry wrapper (lib/api.ts), the remote task service it talks to, and    *)
(* the part of the board (KanbanBoard.tsx, UndoToast.tsx) that calls the   *)
(* store and shows the undo toast.                                         *)
(*                                                                         *)
(* JavaScript runs one event handler at a time: an action of this module   *)
(* is one handler run to its next await, i.e. a user event with the        *)
(* synchronous part of the store operation it calls, the arrival of a      *)
(* response (or of a failure) with the continuation it resumes, or one     *)
(* firing of the toast's interval timer.  A setTimeout(f, 0) is folded     *)
(* into the handler that schedules it.                                     *)
(***************************************************************************)
EXTENDS Integers, Sequences, FiniteSets, TLC

\* ------------------------------------------------------------------ bounds
\* number of store operations the user starts after the initial load
MaxOps == 2

\* ------------------------------------------------------- program constants
MAX_RETRIES == 2
RETRY_DELAY == 1000
ToastSeconds == 5
AUTO_RETRY_LIMIT == 3

NULL == "null"
NoStatus == "-"
NoData == "-"
NoId == "-"

Status == {"todo", "in-progress", "done"}
Priority == {"low", "medium", "high"}

SimulatedFailure == "Simulated API failure"
NetworkError == "Network error - no response received"
UndoSyncError == "Failed to undo move on server"

\* the tasks the remote service holds when the page is opened
SeedTasks ==
  << [id |-> "1", status |-> "todo", priority |-> "low"],
     [id |-> "2", status |-> "in-progress", priority |-> "high"] >>

\* crypto.randomUUID(): an id no other task has
RandomUUID(op) == "uuid-" \o ToString(op)

\* number of moves and undos of the specification of the undo window
MaxMoveOps == 4

\* number of moves and undos of the specification of undo
MaxUndoOps == 3

\* number of moves and undos of the specification of two undos in a row
MaxUndoPairOps == 5

\* number of form submissions of the specification of the modals
MaxFormOps == 2

\* number of calls of the specification of moves of absent tasks
MaxAbsentOps == 3

\* number of creates and deletes of the specification of create then delete
MaxRoundTripOps == 3

\* number of creates and moves of the specification of the columns
MaxColumnOps == 3

\* number of moves, edits and undos of the specification of edits
MaxEditOps == 3

\* number of creates and moves of the user in the specification of the
\* auto-retry effect
MaxAutoRetryOps == 2

\* number of moves made with the keyboard
MaxKeyOps == 3

Max(a, b) == IF a > b THEN a ELSE b

OpIds == 0..Max(Max(MaxOps, MaxMoveOps), Max(MaxUndoOps, MaxUndoPairOps))

VARIABLES
  \* TaskState (the reducer's state)
  tasks, loading, error, moveHistory, retryCount, lastErrorTime,
  \* the remote task service
  remote,
  \* requests and responses in flight, one record per suspended store operation
  calls,
  \* the number of the next store operation
  nextOp,
  \* KanbanBoard / UndoToast
  showUndoToast, timeLeft, timerRef,
  \* history variables: what became of each operation, whose undo window ended
  opLog, expired, undone,
  \* history variable: the latest move, when it was called with nothing in
  \* flight and only undoLastMove has been called since, and what it found
  soloMove,
  \* history variable: when the latest call is an undo that applied an entry,
  \* the entry that was directly below it (its timestamp)
  undoBelow,
  \* one call of withRetry followed on its own: its loop and what it has done
  retry,
  \* history variable: the form data of the latest submission of a modal
  submitted,
  \* history variable: the latest createTask, when it was called with nothing
  \* in flight and only deleteTask of the task it created has been called
  \* since, after it completed, and the ids of the task list at its call
  roundTrip,
  \* CreateTaskModal and EditTaskModal: whether KanbanBoard has them open, and
  \* their loading flag, error message and formData
  modals,
  \* the auto-retry effect of TaskProvider: whether its timer is pending, and
  \* whether more than 5000 ms have passed since lastErrorTime
  autoRetry

vars == << tasks, loading, error, moveHistory, retryCount, lastErrorTime,
           remote, calls, nextOp, showUndoToast, timeLeft, timerRef,
           opLog, expired, undone, soloMove, undoBelow, retry, submitted,
           roundTrip, modals, autoRetry >>

\* ----------------------------------------------------------- small helpers
Range(s) == {s[i] : i \in 1..Len(s)}

\* {...t, ...u}
Merge(t, u) == [f \in DOMAIN t |-> IF f \in DOMAIN u THEN u[f] ELSE t[f]]

HasId(ts, id) == \E i \in 1..Len(ts) : ts[i].id = id

\* Array.prototype.find: the first task with this id
Find(ts, id) == ts[CHOOSE i \in 1..Len(ts) : ts[i].id = id /\ \A j \in 1..(i-1) : ts[j].id # id]

\* ------------------------------------------------------------- taskReducer
SetTasks(payload) == payload

AddTask(ts, t) == Append(ts, t)

UpdateTaskR(ts, id, updates) ==
  [i \in 1..Len(ts) |-> IF ts[i].id = id THEN Merge(ts[i], updates) ELSE ts[i]]

\* DELETE_TASK with its filter inverted
DeleteTaskR_Inverted(ts, id) == SelectSeq(ts, LAMBDA t : t.id = id)

DeleteTaskR(ts, id) == SelectSeq(ts, LAMBDA t : t.id # id)

\* ADD_MOVE_HISTORY keeping the latest move only
AddMoveHistory_Single(h, rec) == << rec >>

AddMoveHistory(h, rec) == Append(h, rec)

\* REMOVE_LAST_MOVE returning the history as it is
RemoveLastMove_Keeps(h) == h

\* REMOVE_LAST_MOVE dropping the oldest entry (slice(1))
RemoveLastMove_Oldest(h) == IF Len(h) = 0 THEN h ELSE Tail(h)

RemoveLastMove(h) == IF Len(h) = 0 THEN h ELSE SubSeq(h, 1, Len(h) - 1)

\* ------------------------------------------------- the remote task service
\* GET /tasks
RemoteList(db) == db

\* POST /tasks: the posted body becomes a resource
RemotePost(db, body) == Append(db, body)

\* PATCH /tasks/:id: the given fields are merged into the resource
RemotePatch(db, id, fields) == UpdateTaskR(db, id, fields)

\* DELETE /tasks/:id
RemoteDelete(db, id) == SelectSeq(db, LAMBDA t : t.id # id)

\* ------------------------------------------------------------- the board
\* KanbanBoard renders the columns, the cards and the UndoToast only when
\* the store is not loading and holds a task
Rendered(ts, ld) == ~ld /\ Len(ts) > 0

ToastVisible == Rendered(tasks, loading) /\ showUndoToast

\* UndoToast's countdown effect, run for the render that follows a handler:
\* ts1, ld1, show1 are the store's tasks and loading flag and the board's
\* showUndoToast after the handler
Render(ts1, ld1, show1) ==
  LET r0 == Rendered(tasks, loading)
      r1 == Rendered(ts1, ld1)
  IN /\ showUndoToast' = show1
     /\ IF ~r1
          THEN \* the toast is not mounted: its cleanup cleared the interval
               timeLeft' = ToastSeconds /\ timerRef' = FALSE
          ELSE IF ~r0
            THEN \* mounted anew: useState(5), and the effect runs
                 timeLeft' = ToastSeconds /\ timerRef' = show1
            ELSE IF show1 = showUndoToast
              THEN \* isVisible did not change: the effect does not run
                   UNCHANGED << timeLeft, timerRef >>
              ELSE IF show1
                THEN timeLeft' = ToastSeconds /\ timerRef' = TRUE
                ELSE timeLeft' = timeLeft /\ timerRef' = FALSE

\* priorityOrder of sortByPriority
PriorityOrder(p) == CASE p = "high" -> 3 [] p = "medium" -> 2 [] p = "low" -> 1

\* the comparator with a and b exchanged: low first
Compare_Ascending(a, b) == PriorityOrder(a.priority) - PriorityOrder(b.priority)

\* (a, b) => priorityOrder[b.priority] - priorityOrder[a.priority]
Compare(a, b) == PriorityOrder(b.priority) - PriorityOrder(a.priority)

\* t put into the sorted list before the first element that the comparator
\* orders after it
RECURSIVE InsertSorted(_, _)
InsertSorted(sorted, t) ==
  IF Len(sorted) = 0 THEN << t >>
  ELSE IF Compare(Head(sorted), t) > 0 THEN << t >> \o sorted
  ELSE << Head(sorted) >> \o InsertSorted(Tail(sorted), t)

\* taskList.sort(comparator): Array.prototype.sort is stable
RECURSIVE SortByPriority(_)
SortByPriority(taskList) ==
  IF Len(taskList) = 0 THEN << >>
  ELSE InsertSorted(SortByPriority(SubSeq(taskList, 1, Len(taskList) - 1)),
                    taskList[Len(taskList)])

\* tasks.forEach: the tasks of one status, pushed in the order of the store
Grouped(ts, st) == SelectSeq(ts, LAMBDA t : t.status = st)

\* the useMemo of the board's columns
TasksByStatus(ts) ==
  [todo |-> SortByPriority(Grouped(ts, "todo")),
   inProgress |-> SortByPriority(Grouped(ts, "in-progress")),
   done |-> SortByPriority(Grouped(ts, "done"))]

\* --------------------------------------------------- the auto-retry effect
\* Date.now() - state.lastErrorTime > 5000, 0 standing for a null lastErrorTime
LongSinceLastError(lastErrorTime1, age1) == lastErrorTime1 # NULL /\ age1 = "old"

\* the effect's condition for setting its timer
AutoRetryDue(error1, retryCount1, loading1, lastErrorTime1, age1) ==
  /\ error1 # NULL
  /\ retryCount1 < AUTO_RETRY_LIMIT
  /\ ~loading1
  /\ LongSinceLastError(lastErrorTime1, age1)

\* the auto-retry effect, run for the render that follows a handler when one
\* of its dependencies has changed: its cleanup clears the pending timer and
\* a new one is set when the condition holds; age1 is "fresh" when the
\* handler has set lastErrorTime
AutoRetryEffect(age1) ==
  autoRetry' =
    [age |-> age1,
     timer |-> IF << error', retryCount', loading', lastErrorTime' >>
                    = << error, retryCount, loading, lastErrorTime >> /\ age1 = autoRetry.age
                 THEN autoRetry.timer
                 ELSE AutoRetryDue(error', retryCount', loading', lastErrorTime', age1)]

\* ---------------------------------------------------------------- lib/api
\* what the store's operation awaits: a request of attempt 0 of withRetry
\* (before is a history field: what the operation found when it was called)
Request(op, kind, id, old, new, data, before) ==
  [op |-> op, kind |-> kind, id |-> id, old |-> old, new |-> new, data |-> data,
   attempt |-> 0, phase |-> "req", resp |-> << >>, before |-> before]

\* no other operation in flight, and for a move the task's status and
\* moveHistory, at the call
NothingBefore == [solo |-> TRUE, status0 |-> NoStatus, hist0 |-> << >>]

Before(kind, id) ==
  IF kind = "move"
    THEN [solo |-> (calls = {}), status0 |-> Find(tasks, id).status, hist0 |-> moveHistory]
    ELSE [NothingBefore EXCEPT !.solo = (calls = {})]

\* the history of operation op: its kind, task and target status, how its
\* remote call ended, the attempts made when a failure was reported, how its
\* promise settled, and the store's error when it completed
Logged(op, kind, id, to, rem, n, res, err) ==
  opLog' = [opLog EXCEPT ![op] = [kind |-> kind, id |-> id, to |-> to, remote |-> rem,
                                  attempts |-> n, result |-> res, err |-> err]]

\* deleteTask without the throw err of its catch block
Rethrows_DeleteSwallows(kind) == kind \in {"create", "move", "edit"}

\* which store operations re-raise a remote failure after recording it
\* (throw err in the catch block); loadTasks and undoLastMove do not
Rethrows(kind) == kind \in {"create", "move", "edit", "delete"}

\* undoLastMove rolling its local change back like updateTaskStatus
RollsBack_UndoToo(kind) == kind \in {"move", "undo"}

\* which store operations undo their optimistic update when the remote call
\* fails: updateTaskStatus; the .catch of undoLastMove only sets the error
RollsBack(kind) == kind = "move"

\* how the store's promise settles for its caller
Settles(kind, remoteOk) ==
  IF remoteOk \/ ~Rethrows(kind) THEN "resolved" ELSE "rejected"

\* the handlers showing the toast whether updateTaskStatus resolved or raised
ShowAfterMove_Always(result) == TRUE

\* handleStatusChange / handleDrop: the toast is shown when updateTaskStatus
\* resolved, and left alone when it raised
ShowAfterMove(result) == IF result = "resolved" THEN TRUE ELSE showUndoToast

NoLog == [kind |-> "-", id |-> NoId, to |-> NoStatus, remote |-> "-",
          attempts |-> 0, result |-> "-", err |-> "-"]

Started(kind, id, to) == [NoLog EXCEPT !.kind = kind, !.id = id, !.to = to]

\* ------------------------------------------------------------- withRetry
RequestFailed == "API request failed"
UnknownError == "Unknown error"

\* what an invocation of the operation given to withRetry can do: resolve
\* with a value, or reject with the ApiError the response interceptor throws
Outcomes ==
  {[ok |-> TRUE, value |-> v, isError |-> FALSE] : v \in {"a", "b"}}
    \cup {[ok |-> FALSE, value |-> m, isError |-> TRUE] : m \in {NetworkError, RequestFailed}}

\* the outcomes of the successive invocations, one more than the loop allows
Scripts == [1..(MAX_RETRIES + 2) -> Outcomes]

\* error instanceof Error ? error : new Error('Unknown error')
ToError(thrown) == IF thrown.isError THEN thrown.value ELSE UnknownError

\* lastError ||= ...: the error of the first failed attempt is kept
NextLastError_First(lastError, thrown) ==
  IF lastError = NULL THEN ToError(thrown) ELSE lastError

\* lastError = ... in the catch block
NextLastError(lastError, thrown) == ToError(thrown)

\* attempt === maxRetries
LastAttempt(attempt) == attempt = MAX_RETRIES

Pow2(n) == 2 ^ n

\* the same delay before every retry
BackoffDelay_Fixed(attempt) == RETRY_DELAY

\* RETRY_DELAY * Math.pow(2, attempt)
BackoffDelay(attempt) == RETRY_DELAY * Pow2(attempt)

\* no call of withRetry is followed
RetryIdle == [pc |-> "idle", attempt |-> 0, lastError |-> NULL, script |-> << >>,
              invoked |-> 0, waited |-> << >>, result |-> NULL]

\* withRetry(operation) is called: attempt = 0, and the loop is entered
WithRetryCall(script) ==
  /\ retry.pc = "idle"
  /\ retry' = [RetryIdle EXCEPT !.pc = "try", !.script = script]
  /\ UNCHANGED << tasks, loading, error, moveHistory, retryCount, lastErrorTime,
                  remote, calls, nextOp, showUndoToast, timeLeft, timerRef,
                  opLog, expired, undone, soloMove, undoBelow, submitted, modals, roundTrip, autoRetry >>

\* try { return await operation() } catch (error) { ... }: the operation is
\* invoked and settles; withRetry returns its value, or records the error
\* and throws it on the last attempt, or goes on to wait
WithRetryAttempt ==
  /\ retry.pc = "try"
  /\ LET n == retry.invoked + 1
         outcome == retry.script[n]
         lastError == NextLastError(retry.lastError, outcome)
     IN retry' =
          IF outcome.ok
            THEN [retry EXCEPT !.invoked = n, !.pc = "returned", !.result = outcome.value]
            ELSE IF LastAttempt(retry.attempt)
              THEN [retry EXCEPT !.invoked = n, !.lastError = lastError,
                                 !.pc = "thrown", !.result = lastError]
              ELSE [retry EXCEPT !.invoked = n, !.lastError = lastError, !.pc = "wait"]
  /\ UNCHANGED << tasks, loading, error, moveHistory, retryCount, lastErrorTime,
                  remote, calls, nextOp, showUndoToast, timeLeft, timerRef,
                  opLog, expired, undone, soloMove, undoBelow, submitted, modals, roundTrip, autoRetry >>

\* await delay(RETRY_DELAY * Math.pow(2, attempt)), then attempt++ and the
\* loop condition attempt <= maxRetries; after the loop, throw lastError
WithRetryDelay ==
  /\ retry.pc = "wait"
  /\ LET attempt == retry.attempt + 1
     IN retry' =
          IF attempt <= MAX_RETRIES
            THEN [retry EXCEPT !.waited = Append(@, BackoffDelay(retry.attempt)),
                               !.attempt = attempt, !.pc = "try"]
            ELSE [retry EXCEPT !.waited = Append(@, BackoffDelay(retry.attempt)),
                               !.attempt = attempt, !.pc = "thrown",
                               !.result = retry.lastError]
  /\ UNCHANGED << tasks, loading, error, moveHistory, retryCount, lastErrorTime,
                  remote, calls, nextOp, showUndoToast, timeLeft, timerRef,
                  opLog, expired, undone, soloMove, undoBelow, submitted, modals, roundTrip, autoRetry >>

\* the latest call is not an undo; the undo applied the only entry
NotAfterUndo == -1
NothingBelow == 0

\* there is no such createTask
NoRoundTrip == [op |-> 0, ids0 |-> {}]

\* there is no such move
NoSoloMove == [op |-> 0, status0 |-> NoStatus, hist0 |-> << >>]

\* ------------------------------------------------------------- the modals
\* a string is the sequence of its characters
Whitespace == {" ", "\t"}

RECURSIVE TrimStart(_)
TrimStart(s) ==
  IF Len(s) > 0 /\ Head(s) \in Whitespace THEN TrimStart(Tail(s)) ELSE s

RECURSIVE TrimEnd(_)
TrimEnd(s) ==
  IF Len(s) > 0 /\ s[Len(s)] \in Whitespace THEN TrimEnd(SubSeq(s, 1, Len(s) - 1)) ELSE s

\* String.prototype.trim
Trim(s) == TrimEnd(TrimStart(s))

\* !formData.title.trim() without the trim
Blank_EmptyOnly(s) == Len(s) = 0

\* !formData.title.trim(): the empty string is the falsy one
Blank(s) == Len(Trim(s)) = 0

\* the check at the head of handleSubmit of both modals
FormRejected(form) == Blank(form.title) \/ Blank(form.description)

\* what the user can have typed into a text field of a modal
FormTexts == { << >>, << " " >>, << "\t", " " >>, << " ", "a", " " >> }

RequiredMessage == "Title and description are required"

\* the formData a CreateTaskModal starts with and goes back to
InitialFormData == [title |-> << >>, description |-> << >>, priority |-> "medium"]

\* a modal that KanbanBoard has not opened
ModalClosed == [isOpen |-> FALSE, loading |-> FALSE, error |-> "", task |-> NoId,
                formData |-> InitialFormData]

\* the formData of a modal when the form is submitted
FormData(form) ==
  [title |-> form.title, description |-> form.description, priority |-> form.priority]

\* the title and the description of the tasks the service holds
TaskText == << "a" >>

\* handleCreateTask / handleEditTask: try { await createTask(data) } catch {}:
\* the promise the modal awaits as onSubmit resolves whatever the store did
HandlerSettles(storeResult) == "resolved"

\* handleSubmit after await onSubmit(...): the try block goes on (the create
\* form is reset, onClose()), or the catch block sets the modal's error;
\* finally setLoading(false)
ModalAfterSubmit(kind, m, handlerResult, message) ==
  IF handlerResult = "resolved"
    THEN [m EXCEPT !.isOpen = FALSE, !.loading = FALSE,
                   !.task = NoId,
                   !.formData = IF kind = "create" THEN InitialFormData ELSE @]
    ELSE [m EXCEPT !.error = message, !.loading = FALSE]

\* the modals when a store operation of this kind completes: the modal that
\* is waiting for it resumes
ModalsAfter(kind, storeResult, message) ==
  IF kind \in {"create", "edit"} /\ modals[kind].loading
    THEN [modals EXCEPT ![kind] = ModalAfterSubmit(kind, @, HandlerSettles(storeResult), message)]
    ELSE modals

\* handleSubmit up to await onSubmit(...): setLoading(true), setError('')
ModalSubmitting(m, form) == [m EXCEPT !.loading = TRUE, !.error = "", !.formData = FormData(form)]

\* no form has been submitted
NoForm == [modal |-> "-", title |-> << >>, description |-> << >>, priority |-> "-"]

\* ------------------------------------------------------------------- Init
\* TaskProvider is mounted and its mount effect has called loadTasks():
\* operation 0 is the initial load, waiting for GET /tasks
Init ==
  /\ tasks = << >>
  /\ loading = TRUE
  /\ error = NULL
  /\ moveHistory = << >>
  /\ retryCount = 0
  /\ lastErrorTime = NULL
  /\ remote = SeedTasks
  /\ calls = { Request(0, "load", NoId, NoStatus, NoStatus, NoData, NothingBefore) }
  /\ nextOp = 1
  /\ showUndoToast = FALSE
  /\ timeLeft = ToastSeconds
  /\ timerRef = FALSE
  /\ opLog = [k \in OpIds |-> IF k = 0 THEN Started("load", NoId, NoStatus) ELSE NoLog]
  /\ expired = {}
  /\ undone = {}
  /\ soloMove = NoSoloMove
  /\ undoBelow = NotAfterUndo
  /\ retry = RetryIdle
  /\ submitted = NoForm
  /\ roundTrip = NoRoundTrip
  /\ modals = [create |-> ModalClosed, edit |-> ModalClosed]
  /\ autoRetry = [timer |-> FALSE, age |-> "-"]

\* ------------------------------------------------- store operations: start
\* loadTasks emptying the task list when it starts
RetryLoadTasks_ClearsTasks ==
  /\ retryCount' = retryCount + 1
  /\ loading' = TRUE
  /\ error' = NULL
  /\ tasks' = << >>
  /\ calls' = calls \cup {Request(nextOp, "load", NoId, NoStatus, NoStatus, NoData, Before("load", NoId))}
  /\ nextOp' = nextOp + 1
  /\ roundTrip' = NoRoundTrip
  /\ opLog' = [opLog EXCEPT ![nextOp] = Started("load", NoId, NoStatus)]
  /\ Render(tasks', TRUE, showUndoToast)
  /\ soloMove' = NoSoloMove
  /\ undoBelow' = NotAfterUndo
  /\ UNCHANGED << retry, submitted, modals, moveHistory, lastErrorTime, remote, expired, undone >>
  /\ AutoRetryEffect(autoRetry.age)

\* retryLoadTasks -> loadTasks(true), up to the await of api.getTasks()
RetryLoadTasks ==
  /\ retryCount' = retryCount + 1
  /\ loading' = TRUE
  /\ error' = NULL
  /\ calls' = calls \cup {Request(nextOp, "load", NoId, NoStatus, NoStatus, NoData, Before("load", NoId))}
  /\ nextOp' = nextOp + 1
  /\ roundTrip' = NoRoundTrip
  /\ opLog' = [opLog EXCEPT ![nextOp] = Started("load", NoId, NoStatus)]
  /\ Render(tasks, TRUE, showUndoToast)
  /\ soloMove' = NoSoloMove
  /\ undoBelow' = NotAfterUndo
  /\ UNCHANGED << retry, submitted, modals, tasks, moveHistory, lastErrorTime, remote, expired, undone >>
  /\ AutoRetryEffect(autoRetry.age)

\* handleCreateTask -> createTask(data) -> api.createTask(data)
CreateTask(prio, sim) ==
  /\ ~loading
  /\ IF sim
       THEN \* shouldFail(): api.createTask throws before any request
            /\ error' = SimulatedFailure
            /\ calls' = calls
            /\ Logged(nextOp, "create", NoId, NoStatus, "failed", 0, Settles("create", FALSE), error')
       ELSE /\ error' = error
            /\ calls' = calls \cup {Request(nextOp, "create", NoId, NoStatus, NoStatus, prio, Before("create", NoId))}
            /\ opLog' = [opLog EXCEPT ![nextOp] = Started("create", NoId, NoStatus)]
  /\ nextOp' = nextOp + 1
  /\ roundTrip' = IF ~sim /\ calls = {}
                    THEN [op |-> nextOp, ids0 |-> {t.id : t \in Range(tasks)}]
                    ELSE NoRoundTrip
  /\ soloMove' = NoSoloMove
  /\ undoBelow' = NotAfterUndo
  /\ UNCHANGED << retry, tasks, loading, moveHistory, retryCount, lastErrorTime, remote,
                  showUndoToast, timeLeft, timerRef, expired, undone >>
  /\ AutoRetryEffect(autoRetry.age)

\* handleDrop / handleStatusChange -> updateTaskStatus(id, newStatus)
UpdateTaskStatus(id, newStatus, sim) ==
  /\ Rendered(tasks, loading)
  /\ HasId(tasks, id)
  /\ Find(tasks, id).status # newStatus
  /\ LET oldStatus == Find(tasks, id).status
         moveRecord == [taskId |-> id, fromStatus |-> oldStatus,
                        toStatus |-> newStatus, timestamp |-> nextOp]
         ts1 == UpdateTaskR(tasks, id, [status |-> newStatus])
         h1 == AddMoveHistory(moveHistory, moveRecord)
         result == Settles("move", FALSE)
     IN IF sim
          THEN \* shouldFail(): the catch block runs before any other handler
               /\ tasks' = UpdateTaskR(ts1, id, [status |-> oldStatus])
               /\ moveHistory' = RemoveLastMove(h1)
               /\ error' = SimulatedFailure
               /\ calls' = calls
               /\ Logged(nextOp, "move", id, newStatus, "failed", 0, result, error')
               /\ Render(tasks', loading, ShowAfterMove(result))
               /\ soloMove' = NoSoloMove
          ELSE /\ tasks' = ts1
               /\ moveHistory' = h1
               /\ error' = error
               /\ calls' = calls \cup {Request(nextOp, "move", id, oldStatus, newStatus, NoData, Before("move", id))}
               /\ opLog' = [opLog EXCEPT ![nextOp] = Started("move", id, newStatus)]
               /\ Render(tasks', loading, showUndoToast)
               /\ soloMove' = IF calls = {}
                                THEN [op |-> nextOp, status0 |-> oldStatus, hist0 |-> moveHistory]
                                ELSE NoSoloMove
  /\ nextOp' = nextOp + 1
  /\ roundTrip' = NoRoundTrip
  /\ undoBelow' = NotAfterUndo
  /\ UNCHANGED << retry, submitted, modals, loading, retryCount, lastErrorTime, remote, expired, undone >>
  /\ AutoRetryEffect(autoRetry.age)

\* updateTaskStatus without its early return: the move is recorded and the
\* update of the server is issued
UpdateTaskStatusAbsent_Proceeds(id, newStatus) ==
  /\ ~HasId(tasks, id)
  /\ moveHistory' = AddMoveHistory(moveHistory, [taskId |-> id, fromStatus |-> NoStatus,
                                                 toStatus |-> newStatus, timestamp |-> nextOp])
  /\ calls' = calls \cup {Request(nextOp, "move", id, NoStatus, newStatus, NoData, NothingBefore)}
  /\ opLog' = [opLog EXCEPT ![nextOp] = Started("move-absent", id, newStatus)]
  /\ nextOp' = nextOp + 1
  /\ roundTrip' = NoRoundTrip
  /\ soloMove' = NoSoloMove
  /\ undoBelow' = NotAfterUndo
  /\ UNCHANGED << tasks, loading, error, retryCount, lastErrorTime, remote,
                  showUndoToast, timeLeft, timerRef, expired, undone, retry, submitted, modals, autoRetry >>

\* updateTaskStatus(id, newStatus) called by a consumer of the store with an
\* id that no task of the list has (the board's handlers take the id from a
\* task of the list): if (!task) return
UpdateTaskStatusAbsent(id, newStatus) ==
  /\ ~HasId(tasks, id)
  /\ opLog' = [opLog EXCEPT ![nextOp] =
                 [Started("move-absent", id, newStatus) EXCEPT !.result = "resolved"]]
  /\ nextOp' = nextOp + 1
  /\ roundTrip' = NoRoundTrip
  /\ soloMove' = NoSoloMove
  /\ undoBelow' = NotAfterUndo
  /\ UNCHANGED << tasks, loading, error, moveHistory, retryCount, lastErrorTime, remote,
                  calls, showUndoToast, timeLeft, timerRef, expired, undone, retry, submitted, modals, autoRetry >>

\* EditTaskModal -> handleEditTask -> updateTask(id, data)
UpdateTask(id, prio, sim) ==
  /\ Rendered(tasks, loading)
  /\ HasId(tasks, id)
  /\ IF sim
       THEN /\ error' = SimulatedFailure
            /\ calls' = calls
            /\ Logged(nextOp, "edit", id, NoStatus, "failed", 0, Settles("edit", FALSE), error')
       ELSE /\ error' = error
            /\ calls' = calls \cup {Request(nextOp, "edit", id, NoStatus, NoStatus, prio, Before("edit", id))}
            /\ opLog' = [opLog EXCEPT ![nextOp] = Started("edit", id, NoStatus)]
  /\ nextOp' = nextOp + 1
  /\ roundTrip' = NoRoundTrip
  /\ soloMove' = NoSoloMove
  /\ undoBelow' = NotAfterUndo
  /\ UNCHANGED << retry, tasks, loading, moveHistory, retryCount, lastErrorTime, remote,
                  showUndoToast, timeLeft, timerRef, expired, undone >>
  /\ AutoRetryEffect(autoRetry.age)

\* the Add Task button: setIsCreateModalOpen(true)
OpenCreateModal ==
  /\ ~loading
  /\ ~modals.create.isOpen
  /\ modals' = [modals EXCEPT !.create.isOpen = TRUE]
  /\ UNCHANGED << tasks, loading, error, moveHistory, retryCount, lastErrorTime, remote,
                  calls, nextOp, showUndoToast, timeLeft, timerRef, opLog, expired, undone,
                  soloMove, undoBelow, retry, submitted, roundTrip, autoRetry >>

\* the edit button of a card: openEditModal(task); the modal's effect copies
\* the task into formData
OpenEditModal(id) ==
  /\ Rendered(tasks, loading)
  /\ HasId(tasks, id)
  /\ ~modals.edit.isOpen
  /\ modals' = [modals EXCEPT !.edit.isOpen = TRUE, !.edit.task = id,
                              !.edit.formData = [title |-> TaskText, description |-> TaskText,
                                                 priority |-> Find(tasks, id).priority]]
  /\ UNCHANGED << tasks, loading, error, moveHistory, retryCount, lastErrorTime, remote,
                  calls, nextOp, showUndoToast, timeLeft, timerRef, opLog, expired, undone,
                  soloMove, undoBelow, retry, submitted, roundTrip, autoRetry >>

\* CreateTaskModal.handleSubmit: the form is checked, then onSubmit(formData)
\* = handleCreateTask is awaited; a rejected form sets the modal's own error
\* and returns
CreateTaskModalSubmit(form, sim) ==
  /\ form.modal = "create"
  /\ modals.create.isOpen /\ ~modals.create.loading
  /\ submitted' = form
  /\ IF FormRejected(form)
       THEN /\ ~sim
            /\ ~loading
            /\ modals' = [modals EXCEPT !.create.error = RequiredMessage,
                                        !.create.formData = FormData(form)]
            /\ opLog' = [opLog EXCEPT ![nextOp] =
                           [Started("create-form", NoId, NoStatus) EXCEPT !.result = "invalid"]]
            /\ nextOp' = nextOp + 1
            /\ UNCHANGED << tasks, loading, error, moveHistory, retryCount, lastErrorTime,
                            remote, calls, showUndoToast, timeLeft, timerRef, expired,
                            undone, soloMove, undoBelow, retry, roundTrip,
                            autoRetry >>
       ELSE /\ CreateTask(form.priority, sim)
            /\ modals' = [modals EXCEPT !.create =
                            IF sim
                              THEN ModalAfterSubmit("create", ModalSubmitting(@, form),
                                                    HandlerSettles(Settles("create", FALSE)),
                                                    SimulatedFailure)
                              ELSE ModalSubmitting(@, form)]

\* EditTaskModal.handleSubmit, for the task the modal was opened with
EditTaskModalSubmit(id, form, sim) ==
  /\ form.modal = "edit"
  /\ modals.edit.isOpen /\ ~modals.edit.loading /\ modals.edit.task = id
  /\ submitted' = form
  /\ IF FormRejected(form)
       THEN /\ ~sim
            /\ Rendered(tasks, loading)
            /\ HasId(tasks, id)
            /\ modals' = [modals EXCEPT !.edit.error = RequiredMessage,
                                        !.edit.formData = FormData(form)]
            /\ opLog' = [opLog EXCEPT ![nextOp] =
                           [Started("edit-form", id, NoStatus) EXCEPT !.result = "invalid"]]
            /\ nextOp' = nextOp + 1
            /\ UNCHANGED << tasks, loading, error, moveHistory, retryCount, lastErrorTime,
                            remote, calls, showUndoToast, timeLeft, timerRef, expired,
                            undone, soloMove, undoBelow, retry, roundTrip,
                            autoRetry >>
       ELSE /\ UpdateTask(id, form.priority, sim)
            /\ modals' = [modals EXCEPT !.edit =
                            IF sim
                              THEN ModalAfterSubmit("edit", ModalSubmitting(@, form),
                                                    HandlerSettles(Settles("edit", FALSE)),
                                                    SimulatedFailure)
                              ELSE ModalSubmitting(@, form)]

\* deleteTask removing the task from the local list before the remote call
DeleteTask_Optimistic(id, sim) ==
  /\ Rendered(tasks, loading)
  /\ HasId(tasks, id)
  /\ tasks' = DeleteTaskR(tasks, id)
  /\ IF sim
       THEN /\ error' = SimulatedFailure
            /\ calls' = calls
            /\ Logged(nextOp, "delete", id, NoStatus, "failed", 0, Settles("delete", FALSE), error')
       ELSE /\ error' = error
            /\ calls' = calls \cup {Request(nextOp, "delete", id, NoStatus, NoStatus, NoData, Before("delete", id))}
            /\ opLog' = [opLog EXCEPT ![nextOp] = Started("delete", id, NoStatus)]
  /\ nextOp' = nextOp + 1
  /\ roundTrip' = IF ~sim /\ calls = {} /\ roundTrip.op = nextOp - 1
                         /\ id = RandomUUID(roundTrip.op)
                    THEN roundTrip
                    ELSE NoRoundTrip
  /\ soloMove' = NoSoloMove
  /\ undoBelow' = NotAfterUndo
  /\ UNCHANGED << retry, submitted, modals, loading, moveHistory, retryCount, lastErrorTime, remote,
                  showUndoToast, timeLeft, timerRef, expired, undone >>
  /\ AutoRetryEffect(autoRetry.age)

\* handleDeleteTask -> deleteTask(id)
DeleteTask(id, sim) ==
  /\ Rendered(tasks, loading)
  /\ HasId(tasks, id)
  /\ IF sim
       THEN /\ error' = SimulatedFailure
            /\ calls' = calls
            /\ Logged(nextOp, "delete", id, NoStatus, "failed", 0, Settles("delete", FALSE), error')
       ELSE /\ error' = error
            /\ calls' = calls \cup {Request(nextOp, "delete", id, NoStatus, NoStatus, NoData, Before("delete", id))}
            /\ opLog' = [opLog EXCEPT ![nextOp] = Started("delete", id, NoStatus)]
  /\ nextOp' = nextOp + 1
  /\ roundTrip' = IF ~sim /\ calls = {} /\ roundTrip.op = nextOp - 1
                         /\ id = RandomUUID(roundTrip.op)
                    THEN roundTrip
                    ELSE NoRoundTrip
  /\ soloMove' = NoSoloMove
  /\ undoBelow' = NotAfterUndo
  /\ UNCHANGED << retry, submitted, modals, tasks, loading, moveHistory, retryCount, lastErrorTime, remote,
                  showUndoToast, timeLeft, timerRef, expired, undone >>
  /\ AutoRetryEffect(autoRetry.age)

\* the Undo button of the toast: handleUndo -> undoLastMove()
HandleUndo(sim) ==
  /\ ToastVisible
  /\ IF Len(moveHistory) = 0
       THEN /\ ~sim
            /\ UNCHANGED << tasks, moveHistory, error, calls, nextOp, opLog, undone, soloMove,
                            undoBelow, roundTrip >>
       ELSE LET lastMove == moveHistory[Len(moveHistory)] IN
            /\ tasks' = UpdateTaskR(tasks, lastMove.taskId, [status |-> lastMove.fromStatus])
            /\ moveHistory' = RemoveLastMove(moveHistory)
            /\ undone' = undone \cup {lastMove.timestamp}
            /\ nextOp' = nextOp + 1
            /\ roundTrip' = NoRoundTrip
            /\ soloMove' = soloMove
            /\ undoBelow' = IF Len(moveHistory) > 1
                               THEN moveHistory[Len(moveHistory) - 1].timestamp
                               ELSE NothingBelow
            /\ IF sim
                 THEN /\ error' = UndoSyncError
                      /\ calls' = calls
                      /\ Logged(nextOp, "undo", lastMove.taskId, lastMove.fromStatus, "failed", 0, Settles("undo", FALSE), error')
                 ELSE /\ error' = error
                      /\ calls' = calls \cup {Request(nextOp, "undo", lastMove.taskId, lastMove.toStatus,
                                                       lastMove.fromStatus, NoData, Before("undo", NoId))}
                      /\ opLog' = [opLog EXCEPT ![nextOp] = Started("undo", lastMove.taskId, lastMove.fromStatus)]
  /\ Render(tasks', loading, FALSE)
  /\ UNCHANGED << loading, retryCount, lastErrorTime, remote, expired, retry, submitted, modals >>
  /\ AutoRetryEffect(autoRetry.age)

\* undoLastMove without its early return: the update of the server is issued
UndoLastMoveNoHistory_Patches ==
  /\ Len(moveHistory) = 0
  /\ opLog' = [opLog EXCEPT ![nextOp] = Started("undo-empty", NoId, NoStatus)]
  /\ calls' = calls \cup {Request(nextOp, "undo", NoId, NoStatus, NoStatus, NoData, NothingBefore)}
  /\ nextOp' = nextOp + 1
  /\ roundTrip' = NoRoundTrip
  /\ UNCHANGED << tasks, loading, error, moveHistory, retryCount, lastErrorTime, remote,
                  showUndoToast, timeLeft, timerRef, expired, undone, soloMove, undoBelow, retry, submitted, modals, autoRetry >>

\* undoLastMove() called by a consumer of the store while moveHistory is
\* empty (the board's toast is not up then): the early return
UndoLastMoveNoHistory ==
  /\ Len(moveHistory) = 0
  /\ opLog' = [opLog EXCEPT ![nextOp] =
                 [Started("undo-empty", NoId, NoStatus) EXCEPT !.result = "resolved"]]
  /\ nextOp' = nextOp + 1
  /\ roundTrip' = NoRoundTrip
  /\ UNCHANGED << tasks, loading, error, moveHistory, retryCount, lastErrorTime, remote,
                  calls, showUndoToast, timeLeft, timerRef, expired, undone, soloMove, undoBelow, retry, submitted, modals, autoRetry >>

\* -------------------------------------------- the remote service answers
\* the service processes the request of call c; its answer travels back
Serve(c) ==
  /\ c \in calls
  /\ c.phase = "req"
  /\ c.kind \in {"move", "undo", "edit", "delete"} => HasId(remote, c.id)
  /\ LET created == [id |-> RandomUUID(c.op), status |-> "todo", priority |-> c.data]
         db == CASE c.kind = "load" -> remote
                 [] c.kind = "create" -> RemotePost(remote, created)
                 [] c.kind \in {"move", "undo"} -> RemotePatch(remote, c.id, [status |-> c.new])
                 [] c.kind = "edit" -> RemotePatch(remote, c.id, [priority |-> c.data])
                 [] c.kind = "delete" -> RemoteDelete(remote, c.id)
         data == CASE c.kind = "load" -> RemoteList(remote)
                   [] c.kind = "create" -> << created >>
                   [] c.kind \in {"move", "undo", "edit"} -> << Find(db, c.id) >>
                   [] c.kind = "delete" -> << >>
     IN /\ remote' = db
        /\ calls' = (calls \ {c}) \cup {[c EXCEPT !.phase = "resp", !.resp = data]}
  /\ UNCHANGED << tasks, loading, error, moveHistory, retryCount, lastErrorTime,
                  nextOp, showUndoToast, timeLeft, timerRef, opLog, expired, undone,
                  soloMove, undoBelow, retry, submitted, modals, roundTrip, autoRetry >>

\* withRetry starting its loop again after the last attempt
RetryAttempt_StartsOver(c) ==
  /\ c \in calls
  /\ c.phase = "req"
  /\ calls' = (calls \ {c}) \cup {[c EXCEPT !.attempt = (c.attempt + 1) % (MAX_RETRIES + 1)]}
  /\ calls' # calls
  /\ UNCHANGED << tasks, loading, error, moveHistory, retryCount, lastErrorTime, remote,
                  nextOp, showUndoToast, timeLeft, timerRef, opLog, expired, undone,
                  soloMove, undoBelow, retry, submitted, modals, roundTrip, autoRetry >>

\* withRetry: the attempt fails (no response, an error status, the timeout)
\* and another attempt is left: after delay(RETRY_DELAY * 2^attempt) the
\* request is sent again
RetryAttempt(c) ==
  /\ c \in calls
  /\ c.phase = "req"
  /\ c.attempt < MAX_RETRIES
  /\ calls' = (calls \ {c}) \cup {[c EXCEPT !.attempt = c.attempt + 1]}
  /\ UNCHANGED << tasks, loading, error, moveHistory, retryCount, lastErrorTime, remote,
                  nextOp, showUndoToast, timeLeft, timerRef, opLog, expired, undone,
                  soloMove, undoBelow, retry, submitted, modals, roundTrip, autoRetry >>

\* withRetry: the last attempt fails, withRetry throws lastError and the
\* catch block of the store operation runs
Fail(c) ==
  /\ c \in calls
  /\ c.phase = "req"
  /\ c.attempt = MAX_RETRIES
  /\ calls' = calls \ {c}
  /\ LET result == Settles(c.kind, FALSE)
         errorMessage == IF c.kind = "undo" THEN UndoSyncError ELSE NetworkError
     IN /\ error' = errorMessage
        /\ Logged(c.op, c.kind, opLog[c.op].id, opLog[c.op].to, "failed", c.attempt + 1, result, error')
        /\ tasks' = IF RollsBack(c.kind)
                      THEN UpdateTaskR(tasks, c.id, [status |-> c.old])
                      ELSE tasks
        /\ moveHistory' = IF RollsBack(c.kind) THEN RemoveLastMove(moveHistory) ELSE moveHistory
        /\ loading' = IF c.kind = "load" THEN FALSE ELSE loading
        /\ lastErrorTime' = IF c.kind = "load" THEN "set" ELSE lastErrorTime
        /\ Render(tasks', loading',
                  IF c.kind = "move" THEN ShowAfterMove(result) ELSE showUndoToast)
  /\ UNCHANGED << retryCount, remote, nextOp, expired, undone, soloMove, undoBelow, retry, submitted, roundTrip >>
  /\ modals' = ModalsAfter(c.kind, Settles(c.kind, FALSE), error')
  /\ AutoRetryEffect(IF c.kind = "load" THEN "fresh" ELSE autoRetry.age)

\* the response arrives and the store operation resumes after its await
Deliver(c) ==
  /\ c \in calls
  /\ c.phase = "resp"
  /\ calls' = calls \ {c}
  /\ LET result == Settles(c.kind, TRUE) IN
     /\ tasks' = CASE c.kind = "load" -> SetTasks(c.resp)
                   [] c.kind = "create" -> AddTask(tasks, c.resp[1])
                   [] c.kind = "edit" -> UpdateTaskR(tasks, c.id, c.resp[1])
                   [] c.kind = "delete" -> DeleteTaskR(tasks, c.id)
                   [] OTHER -> tasks
     /\ loading' = IF c.kind = "load" THEN FALSE ELSE loading
     /\ retryCount' = IF c.kind = "load" THEN 0 ELSE retryCount
     /\ error' = IF c.kind = "undo" THEN error ELSE NULL
     /\ Logged(c.op, c.kind, opLog[c.op].id, opLog[c.op].to, "ok", 0, result, error')
     /\ Render(tasks', loading',
               IF c.kind = "move" THEN ShowAfterMove(result) ELSE showUndoToast)
  /\ UNCHANGED << moveHistory, lastErrorTime, remote, nextOp, expired, undone, soloMove, undoBelow, retry, submitted, roundTrip >>
  /\ modals' = ModalsAfter(c.kind, Settles(c.kind, TRUE), error')
  /\ AutoRetryEffect(autoRetry.age)

\* -------------------------------------------------------------- TaskCard
Keys == {"ArrowLeft", "ArrowRight", "Enter"}

\* handleKeyDown with ArrowLeft on a todo card moving it to done
KeyTarget_Wraps(currentStatus, key) ==
  IF key = "ArrowLeft"
    THEN IF currentStatus = "in-progress" THEN "todo"
         ELSE IF currentStatus = "done" THEN "in-progress" ELSE "done"
    ELSE IF key = "ArrowRight"
      THEN IF currentStatus = "todo" THEN "in-progress"
           ELSE IF currentStatus = "in-progress" THEN "done" ELSE NoStatus
      ELSE NoStatus

\* the status handleKeyDown passes to onStatusChange, NoStatus when it
\* passes none
KeyTarget(currentStatus, key) ==
  IF key = "ArrowLeft"
    THEN IF currentStatus = "in-progress" THEN "todo"
         ELSE IF currentStatus = "done" THEN "in-progress" ELSE NoStatus
    ELSE IF key = "ArrowRight"
      THEN IF currentStatus = "todo" THEN "in-progress"
           ELSE IF currentStatus = "in-progress" THEN "done" ELSE NoStatus
      ELSE NoStatus

\* a key is pressed while the card of task id has the focus:
\* handleKeyDown -> onStatusChange = handleStatusChange -> updateTaskStatus
HandleKeyDown(id, key, sim) ==
  /\ Rendered(tasks, loading)
  /\ HasId(tasks, id)
  /\ IF KeyTarget(Find(tasks, id).status, key) = NoStatus
       THEN UNCHANGED vars
       ELSE UpdateTaskStatus(id, KeyTarget(Find(tasks, id).status, key), sim)

\* ------------------------------------------------------------ auto-retry
\* more than 5000 ms pass after a failed load set lastErrorTime
TimePasses ==
  /\ autoRetry.age = "fresh"
  /\ autoRetry' = [autoRetry EXCEPT !.age = "old"]
  /\ UNCHANGED << tasks, loading, error, moveHistory, retryCount, lastErrorTime, remote,
                  calls, nextOp, showUndoToast, timeLeft, timerRef, opLog, expired, undone,
                  soloMove, undoBelow, retry, submitted, roundTrip, modals >>

\* the timer of the auto-retry effect fires: loadTasks(true)
AutoRetryFires ==
  /\ autoRetry.timer
  /\ RetryLoadTasks

\* ------------------------------------------------------------ UndoToast
MovesSucceeded == {k \in OpIds : opLog[k].kind = "move" /\ opLog[k].remote = "ok"}

\* one firing of the toast's setInterval callback
Tick ==
  /\ timerRef
  /\ IF timeLeft <= 1
       THEN \* the countdown ends: clearInterval, safeHide -> onHide
            /\ timeLeft' = 0
            /\ timerRef' = FALSE
            /\ showUndoToast' = FALSE
            /\ expired' = expired \cup (MovesSucceeded \ undone)
       ELSE /\ timeLeft' = timeLeft - 1
            /\ UNCHANGED << timerRef, showUndoToast, expired >>
  /\ UNCHANGED << tasks, loading, error, moveHistory, retryCount, lastErrorTime,
                  remote, calls, nextOp, opLog, undone, soloMove, undoBelow, retry, submitted, modals, roundTrip, autoRetry >>

\* ------------------------------------------------------------------- Next
\* the priority the forms submit
FormPriority == {"medium"}

TaskIds == {t.id : t \in Range(tasks)}

\* the response or the failure of a call in flight
Network ==
  \/ \E c \in calls : Serve(c)
  \/ \E c \in calls : RetryAttempt(c)
  \/ \E c \in calls : Fail(c)
  \/ \E c \in calls : Deliver(c)

Next ==
  \/ nextOp <= MaxOps /\ RetryLoadTasks
  \/ nextOp <= MaxOps /\ \E prio \in FormPriority, sim \in BOOLEAN :
       CreateTask(prio, sim) /\ UNCHANGED << submitted, modals >>
  \/ nextOp <= MaxOps /\ \E id \in TaskIds, st \in Status, sim \in BOOLEAN :
       UpdateTaskStatus(id, st, sim)
  \/ nextOp <= MaxOps /\ \E id \in TaskIds, prio \in FormPriority, sim \in BOOLEAN :
       UpdateTask(id, prio, sim) /\ UNCHANGED << submitted, modals >>
  \/ nextOp <= MaxOps /\ \E id \in TaskIds, sim \in BOOLEAN : DeleteTask(id, sim)
  \/ (nextOp <= MaxOps \/ Len(moveHistory) = 0) /\ \E sim \in BOOLEAN : HandleUndo(sim)
  \/ nextOp <= MaxOps /\ UndoLastMoveNoHistory
  \/ Network
  \/ Tick

Spec == Init /\ [][Next]_vars

\* every attempt of a request terminates: it is answered, or it fails (the
\* axios timeout at the latest) and withRetry goes on
SpecLive == Init /\ [][Next]_vars /\ WF_vars(Network)

\* the board used for moves of one card and undo only
DraggedIds == {"1"}

NextMoves ==
  \/ nextOp <= MaxMoveOps /\ \E id \in TaskIds \cap DraggedIds, st \in Status, sim \in BOOLEAN :
       UpdateTaskStatus(id, st, sim)
  \/ (nextOp <= MaxMoveOps \/ Len(moveHistory) = 0) /\ \E sim \in BOOLEAN : HandleUndo(sim)
  \/ Network
  \/ Tick

SpecMoves == Init /\ [][NextMoves]_vars

\* the same board with a budget of MaxUndoOps moves and undos
NextUndo ==
  \/ nextOp <= MaxUndoOps /\ \E id \in TaskIds \cap DraggedIds, st \in Status, sim \in BOOLEAN :
       UpdateTaskStatus(id, st, sim)
  \/ (nextOp <= MaxUndoOps \/ Len(moveHistory) = 0) /\ \E sim \in BOOLEAN : HandleUndo(sim)
  \/ Network
  \/ Tick

SpecUndo == Init /\ [][NextUndo]_vars

DropColumns == {"todo", "in-progress"}

\* the same board with a budget of MaxUndoPairOps moves and undos, where no
\* call meets a simulated failure (a move fails when its attempts run out)
\* and the user drags the card between two columns and clicks Undo before the
\* toast's first tick
NextUndoPair ==
  \/ nextOp <= MaxUndoPairOps /\ \E id \in TaskIds \cap DraggedIds, st \in DropColumns :
       UpdateTaskStatus(id, st, FALSE)
  \/ (nextOp <= MaxUndoPairOps \/ Len(moveHistory) = 0) /\ HandleUndo(FALSE)
  \/ Network

SpecUndoPair == Init /\ [][NextUndoPair]_vars

\* the ids a consumer of the store can pass: of the seed tasks, and of no task
CallerIds == {"1", "2", "none"}

\* the store used by a consumer that moves and deletes tasks and calls
\* updateTaskStatus with ids the list does not hold, MaxAbsentOps times
NextAbsent ==
  \/ nextOp <= MaxAbsentOps /\ \E id \in TaskIds \cap DraggedIds, st \in Status, sim \in BOOLEAN :
       UpdateTaskStatus(id, st, sim)
  \/ nextOp <= MaxAbsentOps /\ \E id \in TaskIds : DeleteTask(id, FALSE)
  \/ nextOp <= MaxAbsentOps /\ \E id \in CallerIds \ TaskIds, st \in Status :
       UpdateTaskStatusAbsent(id, st)
  \/ Network

SpecAbsent == Init /\ [][NextAbsent]_vars

\* the board used for creating and deleting tasks, MaxRoundTripOps times
NextRoundTrip ==
  \/ nextOp <= MaxRoundTripOps /\ \E prio \in FormPriority, sim \in BOOLEAN :
       CreateTask(prio, sim) /\ UNCHANGED << submitted, modals >>
  \/ nextOp <= MaxRoundTripOps /\ \E id \in TaskIds, sim \in BOOLEAN : DeleteTask(id, sim)
  \/ Network

SpecRoundTrip == Init /\ [][NextRoundTrip]_vars

\* the board used for creating tasks of every priority and dragging cards,
\* MaxColumnOps times, where no call meets a simulated failure
NextColumns ==
  \/ nextOp <= MaxColumnOps /\ \E prio \in Priority :
       CreateTask(prio, FALSE) /\ UNCHANGED << submitted, modals >>
  \/ nextOp <= MaxColumnOps /\ \E id \in TaskIds, st \in Status : UpdateTaskStatus(id, st, FALSE)
  \/ Network

SpecColumns == Init /\ [][NextColumns]_vars

\* the board used for moves and edits of one card and undo, MaxEditOps times,
\* where no call meets a simulated failure
NextEdits ==
  \/ nextOp <= MaxEditOps /\ \E id \in TaskIds \cap DraggedIds, st \in Status :
       UpdateTaskStatus(id, st, FALSE)
  \/ nextOp <= MaxEditOps /\ \E id \in TaskIds \cap DraggedIds, prio \in FormPriority :
       UpdateTask(id, prio, FALSE) /\ UNCHANGED << submitted, modals >>
  \/ (nextOp <= MaxEditOps \/ Len(moveHistory) = 0) /\ HandleUndo(FALSE)
  \/ Network
  \/ Tick

SpecEdits == Init /\ [][NextEdits]_vars

\* the store left to itself after the page is opened, but for MaxAutoRetryOps
\* tasks the user creates and cards the user drags: time passes and the
\* timer of the auto-retry effect fires, which the operations of the user
\* never keep from happening
AutoRetryOps == MaxAutoRetryOps + 1

NextAutoRetry ==
  \/ nextOp <= MaxAutoRetryOps /\ \E prio \in FormPriority, sim \in BOOLEAN :
       CreateTask(prio, sim) /\ UNCHANGED << submitted, modals >>
  \/ nextOp <= MaxAutoRetryOps /\ \E id \in TaskIds \cap DraggedIds, st \in Status, sim \in BOOLEAN :
       UpdateTaskStatus(id, st, sim)
  \/ nextOp <= AutoRetryOps /\ AutoRetryFires
  \/ TimePasses
  \/ Network

\* every attempt of a request terminates, time passes, and a pending timer
\* fires; the user need not do anything
SpecAutoRetry ==
  /\ Init /\ [][NextAutoRetry]_vars
  /\ WF_vars(Network) /\ WF_vars(TimePasses)
  /\ WF_vars(nextOp <= AutoRetryOps /\ AutoRetryFires)

\* the board used from the keyboard: MaxKeyOps moves by keys pressed on a
\* focused card
NextKeys ==
  \/ nextOp <= MaxKeyOps /\ \E id \in TaskIds, key \in Keys, sim \in BOOLEAN :
       HandleKeyDown(id, key, sim)
  \/ Network

SpecKeys == Init /\ [][NextKeys]_vars

\* the forms the modals can submit
Forms ==
  [modal : {"create", "edit"}, title : FormTexts, description : FormTexts,
   priority : FormPriority]

\* the modals only: forms are submitted, MaxFormOps times, and their calls
\* are answered
NextForms ==
  \/ OpenCreateModal
  \/ \E id \in TaskIds : OpenEditModal(id)
  \/ nextOp <= MaxFormOps /\ \E form \in Forms, sim \in BOOLEAN : CreateTaskModalSubmit(form, sim)
  \/ nextOp <= MaxFormOps /\ \E id \in TaskIds, form \in Forms, sim \in BOOLEAN :
       EditTaskModalSubmit(id, form, sim)
  \/ Network

SpecForms == Init /\ [][NextForms]_vars

\* one call of withRetry, for every script of outcomes
NextRetry ==
  \/ \E script \in Scripts : WithRetryCall(script)
  \/ WithRetryAttempt
  \/ WithRetryDelay

SpecRetry == Init /\ [][NextRetry]_vars

\* ================================================================ claims
\* operation k completes in this step with a failed remote call
FailsNow(k, kind) ==
  opLog[k].remote = "-" /\ opLog'[k].remote = "failed" /\ opLog'[k].kind = kind

\* operation k completes in this step with a successful remote call
SucceedsNow(k, kind) ==
  opLog[k].remote = "-" /\ opLog'[k].remote = "ok" /\ opLog'[k].kind = kind

WithoutEntryOf(h, k) == SelectSeq(h, LAMBDA e : e.timestamp # k)

\* C1: when an updateTaskStatus call fails, what it removes from moveHistory
\* is the entry this call pushed and no other: after the failure moveHistory
\* is what it was without the call's own entry.
C1_FailureRemovesOwnEntry ==
  [][\A k \in OpIds : FailsNow(k, "move") => moveHistory' = WithoutEntryOf(moveHistory, k)]_vars

MovesAndUndosOf(T) == {k \in OpIds : opLog[k].kind \in {"move", "undo"} /\ opLog[k].id = T}

LastOf(K) == CHOOSE k \in K : \A j \in K : j <= k

\* C2: no lost updates.  When no operation is in flight and the last move or
\* undo issued for task T is a move to status s that succeeded at the remote
\* service, T's local status is s.
C2_NoLostUpdate ==
  calls = {} =>
    \A T \in TaskIds :
      MovesAndUndosOf(T) # {} =>
        LET last == LastOf(MovesAndUndosOf(T)) IN
          (opLog[last].kind = "move" /\ opLog[last].remote = "ok") =>
            \A t \in Range(tasks) : t.id = T => t.status = opLog[last].to

\* C3: a move whose undo window has expired without undo is no longer
\* undoable: undoLastMove never applies the history entry of a move of
\* expired (the moves that had succeeded when the toast's countdown ended).
C3_ExpiredNotUndoable == expired \cap undone = {}

\* C4: when a move succeeds, the toast is shown with a full countdown ahead:
\* showUndoToast holds and, where the toast is mounted, its timer runs with
\* timeLeft = 5, so that 5 one-second ticks pass before it hides.
C4_FullWindowAfterSuccess ==
  [][\A k \in OpIds : SucceedsNow(k, "move") =>
        /\ showUndoToast'
        /\ Rendered(tasks', loading') => (timerRef' /\ timeLeft' = ToastSeconds)]_vars

InFlight(k) == \E c \in calls : c.op = k

CallOf(k) == CHOOSE c \in calls : c.op = k

\* the task's status and moveHistory when operation k (a move that fails in
\* this step) was called; a move that fails without a request was called in
\* this same step
StatusBeforeCall(k) ==
  IF InFlight(k) THEN CallOf(k).before.status0 ELSE Find(tasks, opLog'[k].id).status

HistoryBeforeCall(k) == IF InFlight(k) THEN CallOf(k).before.hist0 ELSE moveHistory

\* nothing else was in flight when operation k was called
AloneAtCall(k) == IF InFlight(k) THEN CallOf(k).before.solo ELSE calls = {}

RolledBack(k) ==
  /\ HasId(tasks', opLog'[k].id)
  /\ Find(tasks', opLog'[k].id).status = StatusBeforeCall(k)
  /\ moveHistory' = HistoryBeforeCall(k)
  /\ error' # NULL

\* C5: a move called while no other store operation is in flight and whose
\* remote update fails leaves the task's status and moveHistory as they were
\* before the call (no entry leaked), and error non-null.
C5_FailedMoveRollsBack ==
  [][\A k \in OpIds : (FailsNow(k, "move") /\ AloneAtCall(k)) => RolledBack(k)]_vars

\* C6: no two tasks of the local task list share an id.
C6_UniqueIds ==
  \A i, j \in 1..Len(tasks) : i # j => tasks[i].id # tasks[j].id

\* C7: api.createTask, api.updateTask and api.deleteTask report a failure
\* only after MAX_RETRIES + 1 attempts of the request.
C7_FailureOnlyAfterAllAttempts ==
  \A k \in OpIds :
    (opLog[k].kind \in {"create", "move", "edit", "undo", "delete"} /\ opLog[k].remote = "failed")
      => opLog[k].attempts = MAX_RETRIES + 1

\* C8 as stated: a remote failure is recorded as the store's error and the
\* operation completes without raising.
C8_NoFailureEscapes ==
  \A k \in OpIds :
    opLog[k].remote = "failed" => (opLog[k].err # NULL /\ opLog[k].result = "resolved")

\* C8 amended: a remote failure is recorded as the store's error by every
\* operation; load and undoLastMove then complete without raising, while
\* createTask, updateTaskStatus, updateTask and deleteTask re-raise it.
C8_FailureRecordedThenReraised ==
  \A k \in OpIds :
    opLog[k].remote = "failed" =>
      /\ opLog[k].err \in {SimulatedFailure, NetworkError, UndoSyncError}
      /\ opLog[k].kind \in {"load", "undo"} => opLog[k].result = "resolved"
      /\ opLog[k].kind \in {"create", "move", "edit", "delete"} => opLog[k].result = "rejected"

\* a create and a delete have failed
C8_Witness ==
  \E j, k \in OpIds :
    /\ opLog[j].kind = "create" /\ opLog[j].remote = "failed"
    /\ opLog[k].kind = "delete" /\ opLog[k].remote = "failed"

\* C9: moveHistory is bounded by a constant that does not grow with the
\* number of moves that succeed without being undone: once every operation
\* has completed it holds fewer entries than the moves the user can make
\* (the bound of one entry, which the specification prefers, is a case).
C9_HistoryBounded == calls = {} => Len(moveHistory) < MaxMoveOps

\* C10: a successful updateTask(id, data) with data.priority only changes
\* only the priority of the task with that id.
C10_EditChangesOnlyItsFields ==
  [][\A k \in OpIds : SucceedsNow(k, "edit") =>
        /\ Len(tasks') = Len(tasks)
        /\ \A i \in 1..Len(tasks) :
             tasks'[i] = IF tasks[i].id = opLog[k].id
                           THEN [tasks[i] EXCEPT !.priority = CallOf(k).data]
                           ELSE tasks[i]]_vars

\* operation k is called in this step
CalledNow(k, kinds) == opLog[k].kind = "-" /\ opLog'[k].kind \in kinds

Pessimistic == {"create", "edit", "delete"}

\* C11: createTask, updateTask and deleteTask are side-effect-free on failure:
\* neither the call nor the failure of such an operation changes the local
\* task list or moveHistory, and its failure sets error to a message.
C11_PessimisticFailureNoEffect ==
  [][\A k \in OpIds :
       /\ CalledNow(k, Pessimistic) => (tasks' = tasks /\ moveHistory' = moveHistory)
       /\ \A kind \in Pessimistic : FailsNow(k, kind) =>
            /\ tasks' = tasks /\ moveHistory' = moveHistory
            /\ error' \in {SimulatedFailure, NetworkError}]_vars

\* an edit has failed after all its attempts and a create or a delete has
\* failed, and the task list is what the service sent
C11_Witness ==
  \E j, k \in OpIds :
    /\ opLog[j].kind = "edit" /\ opLog[j].remote = "failed"
    /\ opLog[j].attempts = MAX_RETRIES + 1
    /\ opLog[k].kind \in {"create", "delete"} /\ opLog[k].remote = "failed"
    /\ tasks = SeedTasks /\ error # NULL

\* C12: undo is the inverse of a move.  When updateTaskStatus(T, s), called
\* with nothing in flight, has succeeded and undoLastMove is the next store
\* operation, then after the undo T's status and moveHistory are what they
\* were before the move.
C12_UndoInvertsMove ==
  [][\A k \in OpIds :
       (/\ CalledNow(k, {"undo"})
        /\ soloMove.op # 0 /\ soloMove.op = k - 1
        /\ opLog[soloMove.op].remote = "ok")
       => /\ Find(tasks', opLog[soloMove.op].id).status = soloMove.status0
          /\ moveHistory' = soloMove.hist0]_vars

\* a move called with one entry in moveHistory and nothing in flight has
\* succeeded and has been undone, and the undo's own update has succeeded
C12_Witness ==
  /\ soloMove.op = 2 /\ Len(soloMove.hist0) = 1
  /\ opLog[2].kind = "move" /\ opLog[2].remote = "ok"
  /\ opLog[3].kind = "undo" /\ opLog[3].remote = "ok"
  /\ moveHistory = soloMove.hist0

Top(h) == h[Len(h)]

C14_UndoOnEmptyIsNoOp ==
  [][\A k \in OpIds : CalledNow(k, {"undo-empty"}) =>
        /\ Len(moveHistory) = 0
        /\ UNCHANGED << tasks, moveHistory, error, loading, calls, remote >>]_vars

\* undoLastMove found the history empty after a move had failed, with the
\* failure's message in error
C14_Witness ==
  /\ opLog[1].kind = "move" /\ opLog[1].remote = "failed"
  /\ opLog[2].kind = "undo-empty"
  /\ moveHistory = << >> /\ error # NULL /\ calls = {}

\* the requests this step adds
Issued == {c \in calls' : \A d \in calls : d.op # c.op}

\* C15: two undoLastMove calls in a row never revert the same move twice.
\* When the call before this undoLastMove call was an undoLastMove too, this
\* one applies the entry that was directly below the entry the first one
\* applied, an entry no undo has applied before, and at most one remote
\* update is issued for it.
C15_SecondUndoAppliesNextEntry ==
  [][\A k \in OpIds :
       (CalledNow(k, {"undo"}) /\ undoBelow # NotAfterUndo) =>
          /\ Top(moveHistory).timestamp = undoBelow
          /\ Top(moveHistory).timestamp \notin undone
          /\ Cardinality(Issued) <= 1
          /\ \A c \in Issued : c.op = k /\ c.kind = "undo" /\ c.id = Top(moveHistory).taskId]_vars

\* C16: when the remote update issued by undoLastMove fails, the local undo
\* stands: the failure changes neither the tasks (the task keeps fromStatus)
\* nor moveHistory (the entry is not put back) nor loading, and sets error;
\* when the update fails at once, the undo is applied all the same.
C16_UndoSyncFailureKeepsUndo ==
  [][\A k \in OpIds : FailsNow(k, "undo") =>
        /\ error' = UndoSyncError
        /\ loading' = loading
        /\ IF CalledNow(k, {"undo"})
             THEN /\ moveHistory' = SubSeq(moveHistory, 1, Len(moveHistory) - 1)
                  /\ tasks' = UpdateTaskR(tasks, Top(moveHistory).taskId,
                                          [status |-> Top(moveHistory).fromStatus])
             ELSE tasks' = tasks /\ moveHistory' = moveHistory]_vars

\* a move succeeded and was undone, and all the attempts of the undo's update
\* have failed: the task is where the undo put it, moveHistory is empty
C16_Witness ==
  /\ opLog[1].kind = "move" /\ opLog[1].remote = "ok"
  /\ opLog[2].kind = "undo" /\ opLog[2].remote = "failed"
  /\ opLog[2].attempts = MAX_RETRIES + 1
  /\ tasks = SeedTasks /\ moveHistory = << >> /\ error = UndoSyncError
  /\ remote # SeedTasks

OpsOfKind(kind) == {k \in OpIds : opLog[k].kind = kind}

NoFailure == \A k \in OpIds : opLog[k].remote # "failed"

\* C18: after a sequence of updateTaskStatus and undoLastMove calls that have
\* all completed without a failure, every task's status is the target of the
\* last move called for it (where no undo of that task followed), and
\* moveHistory holds as many entries as there were moves minus the undos
\* that found an entry.
C18_StatusAndHistoryAfterMoves ==
  (calls = {} /\ NoFailure) =>
    /\ Len(moveHistory) = Cardinality(OpsOfKind("move")) - Cardinality(OpsOfKind("undo"))
    /\ \A T \in TaskIds :
         MovesAndUndosOf(T) # {} =>
           LET last == LastOf(MovesAndUndosOf(T)) IN
             opLog[last].kind = "move" => Find(tasks, T).status = opLog[last].to

\* two moves and an undo have completed without a failure, and a third
\* move after them
C18_Witness ==
  /\ calls = {} /\ NoFailure
  /\ opLog[1].kind = "move" /\ opLog[2].kind = "undo" /\ opLog[3].kind = "move"
  /\ Len(moveHistory) = 1 /\ moveHistory[1].timestamp = 3

\* C19: withRetry invokes the operation at most MAX_RETRIES + 1 times and
\* never again after an invocation that succeeded; it returns the value of
\* that invocation, and when MAX_RETRIES + 1 invocations have failed it
\* throws the error of the last one.
C19_WithRetryAttempts ==
  LET n == retry.invoked IN
    /\ n <= MAX_RETRIES + 1
    /\ \A i \in 1..(n - 1) : ~retry.script[i].ok
    /\ (n > 0 /\ retry.script[n].ok) => retry.pc = "returned"
    /\ retry.pc = "returned" => (retry.script[n].ok /\ retry.result = retry.script[n].value)
    /\ retry.pc = "thrown" =>
         /\ n = MAX_RETRIES + 1
         /\ ~retry.script[n].ok
         /\ retry.result = retry.script[n].value

\* three invocations failed, the first and the last with different errors,
\* and the last one's error has been thrown
C19_Witness ==
  /\ retry.pc = "thrown" /\ retry.invoked = 3
  /\ retry.script[1].value = NetworkError
  /\ retry.script[3].value = RequestFailed
  /\ retry.result = RequestFailed

\* C20: after failed attempt k (from 0) withRetry waits RETRY_DELAY * 2^k
\* before the next attempt (1000 ms, then 2000 ms), and it does not wait
\* after the last failed attempt or after a success: it has waited once per
\* invocation made, but for the latest one.
C20_BackoffDelays ==
  /\ \A i \in 1..Len(retry.waited) : retry.waited[i] = RETRY_DELAY * 2 ^ (i - 1)
  /\ \E m \in 0..MAX_RETRIES : retry.waited = SubSeq(<< 1000, 2000 >>, 1, m)
  /\ retry.pc \in {"wait", "returned", "thrown"} => Len(retry.waited) = retry.invoked - 1
  /\ retry.pc = "try" => Len(retry.waited) = retry.invoked

\* two attempts failed and the third succeeded: 1000 ms and 2000 ms waited
C20_Witness ==
  /\ retry.pc = "returned" /\ retry.invoked = 3
  /\ retry.waited = << 1000, 2000 >>

\* C21: the undo toast is made visible only as a consequence of an
\* updateTaskStatus call that resolved: showUndoToast becomes true only in a
\* step where a move's remote update succeeds, and a step where a move fails
\* (at once or after its retries) leaves showUndoToast as it was.
C21_ToastOnlyAfterResolvedMove ==
  [][/\ (~showUndoToast /\ showUndoToast') => \E k \in OpIds : SucceedsNow(k, "move")
     /\ \A k \in OpIds : FailsNow(k, "move") => showUndoToast' = showUndoToast]_vars

\* a move has failed after all its attempts and the toast is not up, the
\* only other operation being the load
C21_Witness ==
  /\ opLog[1].kind = "move" /\ opLog[1].remote = "failed"
  /\ opLog[1].attempts = MAX_RETRIES + 1
  /\ nextOp = 2 /\ calls = {} /\ ~showUndoToast /\ Rendered(tasks, loading)

\* the text is empty or holds white space only
EmptyOrSpaces(text) == \A i \in 1..Len(text) : text[i] \in {" ", "\t"}

\* C22: submitting a create or edit form whose title or description is
\* empty or whitespace-only is rejected before any remote call: the step of
\* the submission issues no request (the calls in flight are the same, so
\* there is nothing to retry), does not touch the remote service and leaves
\* the local task list, moveHistory and the store's error unchanged.
C22_BlankFormRejectedLocally ==
  [][(submitted' # submitted \/ nextOp' # nextOp) =>
       LET form == submitted' IN
         (/\ form.modal \in {"create", "edit"}
          /\ EmptyOrSpaces(form.title) \/ EmptyOrSpaces(form.description))
         => /\ calls' = calls
            /\ remote' = remote
            /\ tasks' = tasks /\ moveHistory' = moveHistory /\ error' = error
            /\ opLog'[nextOp].result = "invalid"]_vars

\* a valid create form was submitted and its task created, then an edit
\* form with a whitespace-only title was rejected
C22_Witness ==
  /\ opLog[1].kind = "create" /\ opLog[1].remote = "ok"
  /\ opLog[2].kind = "edit-form" /\ opLog[2].result = "invalid"
  /\ submitted.title = << "\t", " " >> /\ ~Blank(submitted.description)
  /\ Len(tasks) = Len(SeedTasks) + 1 /\ calls = {}

Completed(k) == opLog[k].remote \in {"ok", "failed"}

\* C23: every started createTask, updateTaskStatus, updateTask, deleteTask,
\* undo update and load eventually completes, with success or failure, after
\* at most MAX_RETRIES + 1 attempts: no request is at an attempt beyond
\* MAX_RETRIES, an operation leaves the calls in flight only by completing,
\* and every operation in flight eventually completes.
C23_EveryOperationCompletes ==
  /\ [](\A c \in calls : c.attempt <= MAX_RETRIES)
  /\ [][\A k \in OpIds : (InFlight(k) /\ ~InFlight(k)') => Completed(k)']_vars
  /\ \A k \in OpIds : InFlight(k) ~> (~InFlight(k) /\ Completed(k))

\* a delete has succeeded and a move has failed after all its attempts, and
\* nothing is in flight
C23_Witness ==
  /\ calls = {}
  /\ \E j, k \in OpIds :
       /\ opLog[j].kind = "delete" /\ opLog[j].remote = "ok"
       /\ opLog[k].kind = "move" /\ opLog[k].remote = "failed"
       /\ opLog[k].attempts = MAX_RETRIES + 1

\* C24: updateTaskStatus(id, s) for an id that is not in the local task list
\* is a no-op: tasks, moveHistory and error are unchanged and no remote
\* update is issued (the calls in flight and the remote service are the
\* same).
C24_MoveOfAbsentTaskIsNoOp ==
  [][\A k \in OpIds : CalledNow(k, {"move-absent"}) =>
        /\ ~HasId(tasks, opLog'[k].id)
        /\ UNCHANGED << tasks, moveHistory, error, calls, remote >>]_vars

\* task 2 was deleted, task 1 was moved, and updateTaskStatus was then
\* called for task 2
C24_Witness ==
  /\ opLog[1].kind = "delete" /\ opLog[1].id = "2" /\ opLog[1].remote = "ok"
  /\ opLog[2].kind = "move" /\ opLog[2].remote = "ok"
  /\ opLog[3].kind = "move-absent" /\ opLog[3].id = "2"
  /\ Len(tasks) = 1 /\ Len(moveHistory) = 1

\* C25: createTask followed by deleteTask of the created task, both
\* succeeding and with no other operation in between (the create is called
\* with nothing in flight, the delete after it completed, and nothing else
\* is called until the delete completes), leaves the set of the ids of the
\* local task list equal to the set before the create.
C25_CreateThenDeleteRestoresIds ==
  [][\A k \in OpIds :
       (/\ SucceedsNow(k, "delete")
        /\ roundTrip.op # 0 /\ roundTrip.op = k - 1
        /\ opLog[roundTrip.op].remote = "ok")
       => {t.id : t \in Range(tasks')} = roundTrip.ids0]_vars

\* task 2 was deleted, then a task was created and deleted again: the list
\* holds task 1 as before the create
C25_Witness ==
  /\ opLog[1].kind = "delete" /\ opLog[1].id = "2" /\ opLog[1].remote = "ok"
  /\ opLog[2].kind = "create" /\ opLog[2].remote = "ok"
  /\ opLog[3].kind = "delete" /\ opLog[3].id = RandomUUID(2) /\ opLog[3].remote = "ok"
  /\ roundTrip = [op |-> 2, ids0 |-> {"1"}]
  /\ TaskIds = {"1"}

\* the tasks of the store with this status and this priority, in store order
OfStatusAndPriority(st, p) == SelectSeq(tasks, LAMBDA t : t.status = st /\ t.priority = p)

\* the column of a status as the claim describes it
ColumnOf(st) ==
  OfStatusAndPriority(st, "high") \o OfStatusAndPriority(st, "medium")
    \o OfStatusAndPriority(st, "low")

\* C26: the board's column lists partition the tasks by status, each task
\* being in the column of its status and in no other, and each column lists
\* its high-priority tasks, then the medium ones, then the low ones, tasks
\* of equal priority in their order in the store.
C26_ColumnsPartitionAndSort ==
  LET cols == TasksByStatus(tasks) IN
    /\ cols.todo = ColumnOf("todo")
    /\ cols.inProgress = ColumnOf("in-progress")
    /\ cols.done = ColumnOf("done")
    /\ Len(cols.todo) + Len(cols.inProgress) + Len(cols.done) = Len(tasks)

\* the todo column holds three tasks, two of them of low priority and a
\* high one that comes after them in the store, and another column a task
C26_Witness ==
  LET cols == TasksByStatus(tasks) IN
    /\ Len(cols.todo) = 3
    /\ Grouped(tasks, "todo")[1].priority = "low"
    /\ Grouped(tasks, "todo")[2].priority = "low"
    /\ Grouped(tasks, "todo")[3].priority = "high"
    /\ Len(cols.inProgress) = 1

\* C27: whenever undoLastMove applies a history entry, the local status of
\* the entry's task is the entry's toStatus (the undo restores the state
\* that preceded the recorded move and overwrites no status set since).
C27_UndoFindsToStatus ==
  [][\A k \in OpIds :
       (CalledNow(k, {"undo"}) /\ HasId(tasks, Top(moveHistory).taskId))
         => Find(tasks, Top(moveHistory).taskId).status = Top(moveHistory).toStatus]_vars

\* C28: when the user clicks Undo on the toast, the move that is reverted
\* is a move that has succeeded (the toast announces one), never a move
\* whose update is still in flight or has failed.
C28_UndoRevertsSucceededMove ==
  [][\A k \in OpIds : CalledNow(k, {"undo"}) =>
        Top(moveHistory).timestamp \in MovesSucceeded]_vars

\* C29: local and remote agree at quiescence: when no operation is in
\* flight and no remote call has failed, every task's local status is its
\* status at the remote service.
C29_LocalAgreesWithRemote ==
  (calls = {} /\ NoFailure) =>
    \A i \in 1..Len(tasks) :
      HasId(remote, tasks[i].id) => Find(remote, tasks[i].id).status = tasks[i].status

\* C30: after deleteTask(id) has succeeded, no task of the local task list
\* has that id.
C30_DeletedStaysDeleted ==
  \A k \in OpIds :
    (opLog[k].kind = "delete" /\ opLog[k].remote = "ok") => ~HasId(tasks, opLog[k].id)

\* C31: every entry of moveHistory refers to a task that is present in the
\* local task list.
C31_HistoryRefersToLocalTasks ==
  \A i \in 1..Len(moveHistory) : HasId(tasks, moveHistory[i].taskId)

ModalKinds == {"create", "edit"}

\* C32: when the store's createTask or updateTask fails, the modal that
\* submitted it stays open, shows the failure message and keeps the entered
\* data; a modal closes only in a step where its store operation succeeds.
C32_ModalStaysOpenOnFailure ==
  [][\A kind \in ModalKinds :
       /\ (\E k \in OpIds : FailsNow(k, kind)) =>
            /\ modals'[kind].isOpen
            /\ modals'[kind].error = error'
            /\ modals'[kind].formData =
                 IF modals[kind].loading THEN modals[kind].formData ELSE FormData(submitted')
       /\ (modals[kind].isOpen /\ ~modals'[kind].isOpen) =>
            \E k \in OpIds : SucceedsNow(k, kind)]_vars


\* load k has failed, it is the last thing the store did, and retryCount is
\* below the limit of the auto-retry effect
LoadFailedBelowLimit(k) ==
  /\ opLog[k].kind = "load" /\ opLog[k].remote = "failed"
  /\ nextOp = k + 1
  /\ retryCount < AUTO_RETRY_LIMIT

\* C33: after a load fails while retryCount is below 3 the store retries by
\* itself: without any user action a further load attempt is eventually
\* started.
C33_FailedLoadIsRetried ==
  \A k \in 0..MaxAutoRetryOps :
    LoadFailedBelowLimit(k) ~> (\E j \in OpIds : j > k /\ opLog[j].kind = "load")

\* C34: the timer of the auto-retry effect is set only by the failure of a
\* load, never by the failure of a create, move, edit, delete or undo, and
\* retryCount never exceeds 3, so at most 3 automatic reloads are started
\* between two resets of retryCount.
C34_AutoReloadOnlyAfterFailedLoad ==
  [][/\ (~autoRetry.timer /\ autoRetry'.timer) => \E k \in OpIds : FailsNow(k, "load")
     /\ retryCount' <= AUTO_RETRY_LIMIT]_vars


\* the columns from left to right
ColumnIndex(status) == IF status = "todo" THEN 0 ELSE IF status = "in-progress" THEN 1 ELSE 2

ColumnAt(n) == IF n = 0 THEN "todo" ELSE IF n = 1 THEN "in-progress" ELSE "done"

KeyStep(key) == IF key = "ArrowRight" THEN 1 ELSE IF key = "ArrowLeft" THEN -1 ELSE 0

\* C35: an arrow key pressed on a focused card starts one move of that card
\* to the adjacent column on the side of the arrow; where there is no such
\* column (ArrowLeft on a todo card, ArrowRight on a done card) no store
\* operation is issued and nothing changes.
C35_ArrowKeysMoveToAdjacentColumn ==
  [][\A id \in TaskIds, key \in Keys, sim \in BOOLEAN :
       HandleKeyDown(id, key, sim) =>
         LET target == ColumnIndex(Find(tasks, id).status) + KeyStep(key)
         IN IF KeyStep(key) # 0 /\ target \in 0..2
              THEN \E k \in OpIds :
                     /\ CalledNow(k, {"move"})
                     /\ nextOp' = nextOp + 1
                     /\ opLog'[k].id = id
                     /\ opLog'[k].to = ColumnAt(target)
              ELSE UNCHANGED vars]_vars

\* a card has been moved with the keys to the rightmost column, one column at
\* a time, and is there, where ArrowRight does nothing
C35_Witness ==
  \E k, j \in OpIds :
    /\ k < j
    /\ opLog[k].kind = "move" /\ opLog[j].kind = "move" /\ opLog[k].id = opLog[j].id
    /\ opLog[k].to = "in-progress" /\ opLog[j].to = "done"
    /\ HasId(tasks, opLog[j].id) /\ Find(tasks, opLog[j].id).status = "done"

====
